---- MODULE Spec2Model ----
(***************************************************************************)
(* The game-state reducer of src/src/main.ts (the function handed to scan  *)
(* in main), with the helpers it calls.  One action per event of the       *)
(* merged key$ / tick$ stream.  Objects that the code shares between       *)
(* states (the two blocks of the module-level initialState) are modelled   *)
(* as separate variables together with the reference the live state holds  *)
(* to them, because the key handlers write through that reference.         *)
(***************************************************************************)
EXTENDS Integers, Sequences, FiniteSets

VARIABLES
  gameEnd, gameBoard, currentBlock, nextBlock, nextBlockShape,
  score, canRestart, highScore, level,   \* the fields of State
  initialCurrentBlock,   \* the object initialState.currentBlock
  initialNextBlock,      \* the object initialState.nextBlock
  currentRef,            \* which object state.currentBlock refers to
  nextRef,               \* which object state.nextBlock refers to
  event,                 \* the event the reducer processed last
  outcome,               \* the branch of the reducer that returned
  cleared,               \* rows found full by the last event's lock
  blocksCreated,         \* calls of createRandomBlock made by the reducer
  previous,              \* the state object the reducer returned for the
                         \* event before the last one, as it reads now
  ticksOnBlock,          \* ticks that let the current block fall since it
                         \* became the current block
  lockedAfter            \* ticks given to the block the last event locked,
                         \* the locking tick included; 0 if it locked none

stateVars ==
  <<gameEnd, gameBoard, currentBlock, nextBlock, nextBlockShape,
    score, canRestart, highScore, level>>

vars ==
  <<gameEnd, gameBoard, currentBlock, nextBlock, nextBlockShape,
    score, canRestart, highScore, level,
    initialCurrentBlock, initialNextBlock, currentRef, nextRef,
    event, outcome, cleared, blocksCreated, previous, ticksOnBlock,
    lockedAfter>>

(* ---------------------------------------------------------------------- *)
(* Bounds.  The board of the program is 10 x 20; the model runs the same   *)
(* code on a smaller board.                                                *)
(* ---------------------------------------------------------------------- *)
GRID_WIDTH == 4

GRID_HEIGHT == 4

MaxBlocks == 2

\* the validator is tried on boards of at most MaxCells occupied cells, on
\* blocks up to MaxAbove rows above the board, with offsets up to MaxOffset
MaxCells == 2

MaxAbove == 2

MaxOffset == 2

(* ---------------------------------------------------------------------- *)
(* Blocks                                                                  *)
(* ---------------------------------------------------------------------- *)
blockTypes ==
  { << <<1, 1>>, <<1, 1>> >>,
    << <<1, 1, 1, 1>> >>,
    << <<0, 1, 0>>, <<1, 1, 1>> >>,
    << <<1, 0>>, <<1, 0>>, <<1, 1>> >>,
    << <<0, 1>>, <<0, 1>>, <<1, 1>> >>,
    << <<0, 1, 1>>, <<1, 1, 0>> >>,
    << <<1, 1, 0>>, <<0, 1, 1>> >> }

\* createRandomBlock with one column too many for randomX
createRandomBlockWide ==
  UNION { { [shape |-> s, x |-> randomX, y |-> 0] :
              randomX \in 0 .. (GRID_WIDTH - Len(s[1]) + 1) } :
          s \in blockTypes }

\* every value createRandomBlock() can return: Math.floor(Math.random() * n)
\* ranges over 0 .. n-1
createRandomBlock ==
  UNION { { [shape |-> s, x |-> randomX, y |-> 0] :
              randomX \in 0 .. (GRID_WIDTH - Len(s[1])) } : s \in blockTypes }

EmptyRow == [c \in 1 .. GRID_WIDTH |-> 0]

EmptyBoard == [r \in 1 .. GRID_HEIGHT |-> EmptyRow]

\* isValidMove without the test of the board cell
isValidMoveThrough(board, block, deltaX, deltaY) ==
  \A rowIndex \in 1 .. Len(block.shape) :
    \A colIndex \in 1 .. Len(block.shape[rowIndex]) :
      block.shape[rowIndex][colIndex] = 1 =>
        LET boardX == block.x + (colIndex - 1) + deltaX
            boardY == block.y + (rowIndex - 1) + deltaY
        IN  /\ boardX >= 0
            /\ boardX < GRID_WIDTH
            /\ boardY < GRID_HEIGHT

\* isValidMove with boardX > 0 in the place of boardX >= 0
isValidMoveLeftWall(board, block, deltaX, deltaY) ==
  \A rowIndex \in 1 .. Len(block.shape) :
    \A colIndex \in 1 .. Len(block.shape[rowIndex]) :
      block.shape[rowIndex][colIndex] = 1 =>
        LET boardX == block.x + (colIndex - 1) + deltaX
            boardY == block.y + (rowIndex - 1) + deltaY
        IN  /\ boardX > 0
            /\ boardX < GRID_WIDTH
            /\ boardY < GRID_HEIGHT
            /\ (boardY < 0 \/ board[boardY + 1][boardX + 1] = 0)

isValidMove(board, block, deltaX, deltaY) ==
  \A rowIndex \in 1 .. Len(block.shape) :
    \A colIndex \in 1 .. Len(block.shape[rowIndex]) :
      block.shape[rowIndex][colIndex] = 1 =>
        LET boardX == block.x + (colIndex - 1) + deltaX
            boardY == block.y + (rowIndex - 1) + deltaY
        IN  /\ boardX >= 0
            /\ boardX < GRID_WIDTH
            /\ boardY < GRID_HEIGHT
            /\ (boardY < 0 \/ board[boardY + 1][boardX + 1] = 0)

\* the board after stackBlock has written the block's cells into it: cell
\* (boardX, boardY) = (c - 1, r - 1) is written when the shape has a 1 at
\* rowIdx = boardY - y, colIdx = boardX - x; boardY >= 0 holds of every row
\* of the board
stackBlock(board, block) ==
  [r \in 1 .. GRID_HEIGHT |->
    [c \in 1 .. GRID_WIDTH |->
      LET rowIdx == (r - 1) - block.y + 1
          colIdx == (c - 1) - block.x + 1
      IN  IF /\ rowIdx \in 1 .. Len(block.shape)
             /\ colIdx \in 1 .. Len(block.shape[rowIdx])
             /\ block.shape[rowIdx][colIdx] = 1
          THEN 1 ELSE board[r][c]]]

\* isGameOver with every in the place of some
isGameOverFilled(board) == \A c \in 1 .. GRID_WIDTH : board[1][c] = 1

isGameOver(board) == \E c \in 1 .. GRID_WIDTH : board[1][c] = 1

isFullRow(row) == \A c \in 1 .. GRID_WIDTH : row[c] = 1

\* gameBoard.splice(i, 1) with a 0-based index i
splice(board, i) ==
  SubSeq(board, 1, i) \o SubSeq(board, i + 2, Len(board))

unshift(board, row) == <<row>> \o board

\* the clearing loop reading its rows from the live board
RECURSIVE clearFullRowsLive(_, _, _)
clearFullRowsLive(snapshot, y, acc) ==
  IF y >= GRID_HEIGHT THEN acc
  ELSE LET row == acc.board[GRID_HEIGHT - y]
       IN  IF isFullRow(row)
           THEN clearFullRowsLive(snapshot, y + 1,
                  [board   |-> unshift(splice(acc.board, GRID_HEIGHT - 1 - y),
                                       EmptyRow),
                   score   |-> acc.score + 10,
                   level   |-> acc.level + 1,
                   cleared |-> acc.cleared + 1])
           ELSE clearFullRowsLive(snapshot, y + 1, acc)

\* state.gameBoard.slice().reverse().forEach((row, y) => ...): the rows that
\* are tested come from the copy taken before the loop, the splice and the
\* unshift act on the live board.  acc = [board, score, level, cleared].
RECURSIVE clearFullRows(_, _, _)
clearFullRows(snapshot, y, acc) ==
  IF y >= GRID_HEIGHT THEN acc
  ELSE LET row == snapshot[GRID_HEIGHT - y]
       IN  IF isFullRow(row)
           THEN clearFullRows(snapshot, y + 1,
                  [board   |-> unshift(splice(acc.board, GRID_HEIGHT - 1 - y),
                                       EmptyRow),
                   score   |-> acc.score + 10,
                   level   |-> acc.level + 1,
                   cleared |-> acc.cleared + 1])
           ELSE clearFullRows(snapshot, y + 1, acc)

\* the events of the merged stream: the four key codes key$ lets through and
\* the numbers of tick$
Events == {"KeyA", "KeyD", "KeyS", "KeyR", "tick"}

\* the returns of the reducer: a key move made ("moved") or refused
\* ("blocked"), KeyR answered by restartGame ("restarted") or not ("ignored"),
\* a tick after the end ("ignored"), a tick that lets the block fall ("fell"),
\* the two returns of the lock branch ("over", "locked")
Outcomes ==
  {"start", "moved", "blocked", "restarted", "ignored", "fell", "over", "locked"}

\* the model follows a session until createRandomBlock has been called
\* MaxBlocks times by the reducer
Running == blocksCreated < MaxBlocks

(* ---------------------------------------------------------------------- *)
(* The reducer                                                             *)
(* ---------------------------------------------------------------------- *)

\* what a reader of the state object the reducer holds finds in its fields,
\* the board array and the two block objects read through their references
snapshot ==
  [gameEnd        |-> gameEnd,
   gameBoard      |-> gameBoard,
   currentBlock   |-> currentBlock,
   nextBlock      |-> nextBlock,
   nextBlockShape |-> nextBlockShape,
   score          |-> score,
   canRestart     |-> canRestart,
   highScore      |-> highScore,
   level          |-> level]

\* initialState, then initialStateWithNextShape, the seed of scan
Init ==
  /\ gameEnd = FALSE
  /\ gameBoard = EmptyBoard
  /\ currentBlock \in createRandomBlock
  /\ nextBlock \in createRandomBlock
  /\ nextBlockShape = nextBlock.shape
  /\ score = 0
  /\ canRestart = FALSE
  /\ highScore = 0
  /\ level = 1
  /\ initialCurrentBlock = currentBlock
  /\ initialNextBlock = nextBlock
  /\ currentRef = "initialCurrent"
  /\ nextRef = "initialNext"
  /\ event = "none"
  /\ outcome = "start"
  /\ cleared = 0
  /\ blocksCreated = 0
  /\ previous = snapshot
  /\ ticksOnBlock = 0
  /\ lockedAfter = 0

\* state.currentBlock.x += deltaX / state.currentBlock.y += deltaY: a write
\* into the object the state refers to, guarded by isValidMove
keyMove(code, deltaX, deltaY) ==
  LET ok    == isValidMove(gameBoard, currentBlock, deltaX, deltaY)
      moved == [currentBlock EXCEPT !.x = @ + deltaX, !.y = @ + deltaY]
  IN  /\ Running
      /\ event' = code
      /\ outcome' = IF ok THEN "moved" ELSE "blocked"
      /\ currentBlock' = IF ok THEN moved ELSE currentBlock
      /\ initialCurrentBlock' =
           IF ok /\ currentRef = "initialCurrent" THEN moved
           ELSE initialCurrentBlock
      /\ initialNextBlock' =
           IF ok /\ currentRef = "initialNext" THEN moved
           ELSE initialNextBlock
      /\ cleared' = 0
      /\ UNCHANGED <<gameEnd, gameBoard, nextBlock, nextBlockShape, score,
                     canRestart, highScore, level, currentRef, nextRef,
                     blocksCreated>>
      \* return state: the object returned before, with the block written
      /\ previous' = snapshot'
      /\ UNCHANGED ticksOnBlock
      /\ lockedAfter' = 0

KeyA == keyMove("KeyA", -1, 0)

KeyD == keyMove("KeyD", 1, 0)

KeyS == keyMove("KeyS", 0, 1)

\* restartGame without the new board
restartGameKeepBoard ==
  [gameEnd        |-> FALSE,
   gameBoard      |-> gameBoard,
   currentBlock   |-> initialCurrentBlock,
   nextBlock      |-> initialNextBlock,
   nextBlockShape |-> initialNextBlock.shape,
   score          |-> 0,
   canRestart     |-> FALSE,
   highScore      |-> 0,
   level          |-> 1]

\* restartGame(): initialStateWithNextShape with a new empty board; the two
\* blocks are the objects of initialState, as they are now
restartGame ==
  [gameEnd        |-> FALSE,
   gameBoard      |-> EmptyBoard,
   currentBlock   |-> initialCurrentBlock,
   nextBlock      |-> initialNextBlock,
   nextBlockShape |-> initialNextBlock.shape,
   score          |-> 0,
   canRestart     |-> FALSE,
   highScore      |-> 0,
   level          |-> 1]

updatedHighScore(sc, hs) == IF sc > hs THEN sc ELSE hs

\* a restart that is never refused
restartAlways(cr, ge) == TRUE

\* if (state.canRestart) { ... if (state.gameEnd) { return ... } }
restartAllowed(cr, ge) == cr /\ ge

\* the restarted state with canRestart left true
restartedStateCanRestart(sc, hs) ==
  [restartGame EXCEPT !.canRestart = TRUE,
                      !.highScore = updatedHighScore(sc, hs)]

\* the restarted state without highScore: updatedHighScore
restartedStateNoHighScore(sc, hs) ==
  [restartGame EXCEPT !.canRestart = FALSE]

\* { ...restartGame(), canRestart: false, highScore: updatedHighScore }
restartedState(sc, hs) ==
  [restartGame EXCEPT !.canRestart = FALSE,
                      !.highScore = updatedHighScore(sc, hs)]

KeyR ==
  /\ Running
  /\ event' = "KeyR"
  /\ cleared' = 0
  /\ UNCHANGED <<initialCurrentBlock, initialNextBlock, blocksCreated>>
  /\ IF restartAllowed(canRestart, gameEnd)
     THEN /\ LET r == restartedState(score, highScore)
             IN  /\ gameEnd' = r.gameEnd
                 /\ gameBoard' = r.gameBoard
                 /\ currentBlock' = r.currentBlock
                 /\ nextBlock' = r.nextBlock
                 /\ nextBlockShape' = r.nextBlockShape
                 /\ score' = r.score
                 /\ canRestart' = r.canRestart
                 /\ highScore' = r.highScore
                 /\ level' = r.level
          /\ currentRef' = "initialCurrent"
          /\ nextRef' = "initialNext"
          /\ outcome' = "restarted"
          \* a new object with a new board; the old one is not written
          /\ previous' = snapshot
          /\ ticksOnBlock' = 0
          /\ lockedAfter' = 0
     ELSE /\ outcome' = "ignored"
          /\ UNCHANGED <<gameEnd, gameBoard, currentBlock, nextBlock,
                         nextBlockShape, score, canRestart, highScore, level,
                         currentRef, nextRef>>
          \* return state: the object returned before
          /\ previous' = snapshot'
          /\ UNCHANGED ticksOnBlock
          /\ lockedAfter' = 0

\* no landing point at all
landingAwardNever(over, sc) == sc

\* the landing point of stackBlock's copy kept as well
landingAwardTwice(over, sc) == IF ~over THEN sc + 2 ELSE sc + 1

\* if (!gameEnd) state = { ...state, score: state.score + 1 }; the copy that
\* stackBlock increments and returns is dropped by the caller
landingAward(over, sc) == IF ~over THEN sc + 1 ELSE sc

\* the lock branch of the tick handler up to its two returns: stackBlock,
\* isGameOver, the landing point, the row clearing loop
lockBlock(board, block, sc, lv) ==
  \* stacked and res are each bound as the one element of a set, which makes
  \* them values computed once
  CHOOSE l \in UNION {
    { [gameEnd |-> isGameOver(stacked), board |-> res.board,
       score |-> res.score, level |-> res.level, cleared |-> res.cleared] :
      res \in { clearFullRows(stacked, 0,
                  [board   |-> stacked,
                   score   |-> landingAward(isGameOver(stacked), sc),
                   level   |-> lv,
                   cleared |-> 0]) } } :
    stacked \in { stackBlock(board, block) } } : TRUE

\* a tick handler that does not look at gameEnd
tickNeverIgnored(ge) == FALSE

\* if (state.gameEnd) return state
tickIgnored(ge) == ge

\* a new random block in the place of the next block, as in the unused tick()
newBlockRandom(next) == CHOOSE b \in createRandomBlock : b # next

\* const newBlock = state.nextBlock
newBlock(next) == next

\* a copy of the block that stays where the block is
updatedBlockStays(block) == block

\* const updatedBlock = { ...state.currentBlock }; updatedBlock.y++
updatedBlock(block) == [block EXCEPT !.y = @ + 1]

Tick ==
  /\ Running
  /\ event' = "tick"
  /\ IF tickIgnored(gameEnd)
     THEN /\ outcome' = "ignored"
          /\ cleared' = 0
          /\ UNCHANGED <<stateVars, initialCurrentBlock, initialNextBlock,
                         currentRef, nextRef, blocksCreated>>
          /\ previous' = snapshot'
          /\ UNCHANGED ticksOnBlock
          /\ lockedAfter' = 0
     ELSE IF isValidMove(gameBoard, currentBlock, 0, 1)
     THEN \* updatedBlock is a copy: the state stops referring to the
          \* object it referred to
          /\ currentBlock' = updatedBlock(currentBlock)
          /\ ticksOnBlock' = ticksOnBlock + 1
          /\ lockedAfter' = 0
          /\ currentRef' = "fresh"
          /\ outcome' = "fell"
          /\ cleared' = 0
          \* { ...state, currentBlock: updatedBlock }: a new object
          /\ previous' = snapshot
          /\ UNCHANGED <<gameEnd, gameBoard, nextBlock, nextBlockShape, score,
                         canRestart, highScore, level, initialCurrentBlock,
                         initialNextBlock, nextRef, blocksCreated>>
     ELSE \* l is bound to the value of lockBlock, computed once
          \E l \in {lockBlock(gameBoard, currentBlock, score, level)} :
              /\ gameBoard' = l.board
              /\ score' = l.score
              /\ level' = l.level
              /\ cleared' = l.cleared
              /\ gameEnd' = l.gameEnd
              /\ UNCHANGED <<initialCurrentBlock, initialNextBlock>>
              \* the copies { ...state } share state.gameBoard, the array
              \* that stackBlock, splice and unshift write
              /\ previous' = [snapshot EXCEPT !.gameBoard = l.board]
              /\ ticksOnBlock' = 0
              /\ lockedAfter' = ticksOnBlock + 1
              /\ IF l.gameEnd
                 THEN /\ canRestart' = TRUE
                      /\ highScore' = updatedHighScore(l.score, highScore)
                      /\ outcome' = "over"
                      /\ UNCHANGED <<currentBlock, nextBlock, nextBlockShape,
                                     currentRef, nextRef, blocksCreated>>
                 ELSE /\ \E newNextBlock \in createRandomBlock :
                           /\ nextBlock' = newNextBlock
                           /\ nextBlockShape' = newNextBlock.shape
                      /\ currentBlock' = newBlock(nextBlock)
                      /\ currentRef' = nextRef
                      /\ nextRef' = "fresh"
                      /\ blocksCreated' = blocksCreated + 1
                      /\ outcome' = "locked"
                      /\ UNCHANGED <<canRestart, highScore>>

Next == KeyA \/ KeyD \/ KeyS \/ KeyR \/ Tick

Spec == Init /\ [][Next]_vars

\* tick$ = interval(TICK_RATE_MS) never completes: as long as the reducer is
\* followed, a tick is processed again and again
\* the sessions in which the two calls of createRandomBlock for initialState
\* returned equal blocks
InitTicking == Init /\ nextBlock = currentBlock

SpecTicking == InitTicking /\ [][Next]_vars /\ WF_vars(Tick)

(* ---------------------------------------------------------------------- *)
(* isValidMove on its own: any board of a few cells, any block of the      *)
(* catalog at any place on, beside or above the board, and the three key   *)
(* handlers that call the validator                                        *)
(* ---------------------------------------------------------------------- *)
BoardCells == (1 .. GRID_HEIGHT) \X (1 .. GRID_WIDTH)

ValidatorBoards ==
  { [r \in 1 .. GRID_HEIGHT |->
      [c \in 1 .. GRID_WIDTH |-> IF <<r, c>> \in occupied THEN 1 ELSE 0]] :
      occupied \in { cs \in SUBSET BoardCells : Cardinality(cs) <= MaxCells } }

ValidatorBlocks ==
  [shape : blockTypes, x : (-1) .. (GRID_WIDTH - 1),
   y : (-MaxAbove) .. (GRID_HEIGHT - 1)]

InitValidator ==
  /\ gameEnd = FALSE
  /\ gameBoard \in ValidatorBoards
  /\ currentBlock \in ValidatorBlocks
  /\ nextBlock = [shape |-> currentBlock.shape, x |-> 0, y |-> 0]
  /\ nextBlockShape = nextBlock.shape
  /\ score = 0
  /\ canRestart = FALSE
  /\ highScore = 0
  /\ level = 1
  /\ initialCurrentBlock = nextBlock
  /\ initialNextBlock = nextBlock
  /\ currentRef = "fresh"
  /\ nextRef = "fresh"
  /\ event = "none"
  /\ outcome = "start"
  /\ cleared = 0
  /\ blocksCreated = 0
  /\ previous = snapshot
  /\ ticksOnBlock = 0
  /\ lockedAfter = 0

NextValidator == KeyA \/ KeyD \/ KeyS

SpecValidator == InitValidator /\ [][NextValidator]_vars

(* ---------------------------------------------------------------------- *)
(* Reference definitions used by the properties: the board operations and  *)
(* the move validator as the specification words them                      *)
(* ---------------------------------------------------------------------- *)

\* the cells (boardX, boardY) covered by the 1-cells of a block, 0-based
BlockCells(b) ==
  { <<b.x + (c - 1), b.y + (r - 1)>> :
      <<r, c>> \in { rc \in (1 .. Len(b.shape)) \X (1 .. Len(b.shape[1])) :
                       b.shape[rc[1]][rc[2]] = 1 } }

\* the shape of the state: the references agree with the objects they name
\* and the active block lies inside the board
TypeOK ==
  /\ event \in Events \cup {"none"}
  /\ outcome \in Outcomes
  /\ gameEnd \in BOOLEAN
  /\ canRestart \in BOOLEAN
  /\ currentRef \in {"initialCurrent", "initialNext", "fresh"}
  /\ nextRef \in {"initialNext", "fresh"}
  /\ currentRef = "initialCurrent" => currentBlock = initialCurrentBlock
  /\ currentRef = "initialNext" => currentBlock = initialNextBlock
  /\ nextRef = "initialNext" => nextBlock = initialNextBlock
  /\ BlockCells(currentBlock) \subseteq
       (0 .. (GRID_WIDTH - 1)) \X (0 .. (GRID_HEIGHT - 1))

\* the board with every cell covered by an occupied cell of the block set
stamp(board, block) ==
  [r \in 1 .. GRID_HEIGHT |->
    [c \in 1 .. GRID_WIDTH |->
      IF <<c - 1, r - 1>> \in BlockCells(block) THEN 1 ELSE board[r][c]]]

fullRows(board) == { r \in 1 .. GRID_HEIGHT : isFullRow(board[r]) }

notFullRow(row) == ~isFullRow(row)

\* all full rows removed, as many empty rows put on top, the others in order
clearRows(board) ==
  LET kept == SelectSeq(board, notFullRow)
  IN  [i \in 1 .. (GRID_HEIGHT - Len(kept)) |-> EmptyRow] \o kept

translate(block, dx, dy) == [block EXCEPT !.x = @ + dx, !.y = @ + dy]

canPlace(board, block, dx, dy) ==
  \A cell \in BlockCells(translate(block, dx, dy)) :
    /\ cell[1] \in 0 .. (GRID_WIDTH - 1)
    /\ cell[2] < GRID_HEIGHT
    /\ (cell[2] < 0 \/ board[cell[2] + 1][cell[1] + 1] = 0)

freshlySpawned(block) ==
  /\ block.y = 0
  /\ block.x \in 0 .. (GRID_WIDTH - Len(block.shape[1]))

max(a, b) == IF a >= b THEN a ELSE b

\* the step just taken was a tick that locked the active block
Locks == event' = "tick" /\ outcome' \in {"locked", "over"}

\* rows that are full right after the active block is stamped
fullAfterStamp == Cardinality(fullRows(stamp(gameBoard, currentBlock)))

MoveKeys == {"KeyA", "KeyD", "KeyS"}

deltaXOf(code) == IF code = "KeyA" THEN -1 ELSE IF code = "KeyD" THEN 1 ELSE 0

deltaYOf(code) == IF code = "KeyS" THEN 1 ELSE 0

(* ---------------------------------------------------------------------- *)
(* Properties                                                              *)
(* ---------------------------------------------------------------------- *)

\* C1: a tick that locks the active block leaves the stamped board with
\* every full row removed and as many empty rows on top, the other rows in
\* their order, however many rows are full at once.
C1_LockClearsEveryFullRow ==
  [][Locks => gameBoard' = clearRows(stamp(gameBoard, currentBlock))]_vars

\* C2: once the game has ended, KeyA, KeyD and KeyS leave the whole state
\* unchanged, the position of the active block included.
C2_EndedIgnoresMoves ==
  [][(gameEnd /\ event' \in MoveKeys) => UNCHANGED stateVars]_vars

\* C3: after a restart the active block and the next block are both freshly
\* spawned: at row 0, the column in [0, GRID_WIDTH - width of the shape].
C3_RestartSpawnsFreshBlocks ==
  outcome = "restarted" =>
    freshlySpawned(currentBlock) /\ freshlySpawned(nextBlock)

\* C4 (as claimed): a tick that locks the block, clears k >= 1 rows and does
\* not end the game adds exactly 10*k to the score (no landing point).
C4_NoLandingPointOnClear ==
  [][(Locks /\ outcome' = "locked" /\ fullAfterStamp >= 1)
       => score' = score + 10 * fullAfterStamp]_vars

\* C4 (amended): a tick that locks the block, clears k >= 1 rows and does not
\* end the game adds exactly 10*k + 1 to the score: the landing point is
\* given whenever the lock does not end the game.
C4_LandingPointOnClear ==
  [][(Locks /\ outcome' = "locked" /\ fullAfterStamp >= 1)
       => score' = score + 10 * fullAfterStamp + 1]_vars

C4_Witness == outcome = "locked" /\ cleared >= 1 /\ score >= 11

C6_RestartResets ==
  [][(event' = "KeyR" /\ canRestart /\ gameEnd) =>
       /\ gameBoard' = EmptyBoard
       /\ score' = 0
       /\ level' = 1
       /\ gameEnd' = FALSE
       /\ canRestart' = FALSE
       /\ highScore' = max(highScore, score)]_vars

C6_Witness ==
  outcome = "restarted" /\ gameBoard = EmptyBoard /\ highScore > 0

\* C7: KeyR while canRestart is false or gameEnd is false leaves the whole
\* state unchanged.
C7_RestartRefused ==
  [][(event' = "KeyR" /\ (~canRestart \/ ~gameEnd)) =>
       UNCHANGED stateVars]_vars

C7_Witness ==
  event = "KeyR" /\ outcome = "ignored" /\ ~gameEnd /\ score > 0

\* C8: a tick that locks the block with no row full after the stamp and
\* without ending the game adds exactly 1 to the score and leaves level and
\* gameEnd as they were.
C8_LandingPoint ==
  [][(Locks /\ fullAfterStamp = 0
        /\ ~(\E c \in 1 .. GRID_WIDTH :
               stamp(gameBoard, currentBlock)[1][c] = 1))
       => /\ score' = score + 1
          /\ level' = level
          /\ gameEnd' = gameEnd]_vars

C8_Witness ==
  outcome = "locked" /\ cleared = 0 /\ score = 1 /\ level = 1 /\ ~gameEnd

\* C9: a tick that locks the block raises level by k and adds 10*k to the
\* score besides the landing point, k being the number of rows that are
\* full right after the stamp.
C9_TenPointsAndALevelPerRow ==
  [][Locks =>
       /\ level' = level + fullAfterStamp
       /\ score' = score + 10 * fullAfterStamp
                     + (IF gameEnd' THEN 0 ELSE 1)]_vars

C9_Witness ==
  outcome \in {"locked", "over"} /\ cleared >= 2 /\ level >= 3

\* C10: while the game has not ended, KeyA, KeyD and KeyS move the active
\* block by (-1,0), (1,0), (0,1) when that placement is valid and leave it
\* in place otherwise; board, next block, score, level, gameEnd, canRestart
\* and highScore do not change.
C10_MoveKeys ==
  [][(~gameEnd /\ event' \in MoveKeys) =>
       /\ currentBlock' =
            IF canPlace(gameBoard, currentBlock,
                        deltaXOf(event'), deltaYOf(event'))
            THEN translate(currentBlock, deltaXOf(event'), deltaYOf(event'))
            ELSE currentBlock
       /\ UNCHANGED <<gameBoard, nextBlock, score, level, gameEnd,
                      canRestart, highScore>>]_vars

C10_Witness ==
  /\ ~gameEnd
  /\ event \in MoveKeys
  /\ outcome = "moved"
  /\ \E r \in 1 .. GRID_HEIGHT : \E c \in 1 .. GRID_WIDTH : gameBoard[r][c] = 1

\* C11: for every board, block and offset, isValidMove is true exactly when
\* every occupied cell of the shape, moved by the offset, has its column in
\* [0, GRID_WIDTH), its row below GRID_HEIGHT, and either a row above the
\* board or an empty board cell; the 0 cells of the shape do not count.
C11_ValidatorIffPlaceable ==
  \A dx \in (-MaxOffset) .. MaxOffset : \A dy \in (-MaxOffset) .. MaxOffset :
    isValidMove(gameBoard, currentBlock, dx, dy)
      = canPlace(gameBoard, currentBlock, dx, dy)

C11_Witness ==
  /\ event \in MoveKeys
  /\ outcome = "moved"
  /\ currentBlock.y < 0
  /\ gameBoard # EmptyBoard
  /\ \E dx \in (-MaxOffset) .. MaxOffset :
       ~isValidMove(gameBoard, currentBlock, dx, 0)

\* C12: a tick while gameEnd is true leaves the whole state unchanged.
C12_EndedIgnoresTick ==
  [][(gameEnd /\ event' = "tick") => UNCHANGED stateVars]_vars

C12_Witness ==
  event = "tick" /\ outcome = "ignored" /\ gameEnd /\ canRestart

\* C13: after a tick that locks the block without ending the game, the
\* active block is the former next block, shape and position; the new next
\* block has a shape of the catalog, is at row 0 with its column in
\* [0, GRID_WIDTH - width of the shape]; nextBlockShape is its shape.
C13_NextBlockPromoted ==
  [][(event' = "tick" /\ outcome' = "locked") =>
       /\ currentBlock' = nextBlock
       /\ nextBlock'.shape \in blockTypes
       /\ freshlySpawned(nextBlock')
       /\ nextBlockShape' = nextBlock'.shape]_vars

C13_Witness ==
  /\ event = "tick"
  /\ outcome = "locked"
  /\ currentBlock # nextBlock
  /\ nextBlockShape = nextBlock.shape
  /\ blocksCreated >= 1

\* C14: processing a command never changes the contents (board cells, block
\* shape and position, score, level, flags) of a snapshot returned for an
\* earlier command: the state object returned for the command before reads,
\* after the command, as it read when it was returned.
C14_ReturnedSnapshotUnchanged == [][previous' = snapshot]_vars

\* C15: canRestart is true only if gameEnd is true.
C15_CanRestartOnlyWhenEnded == canRestart => gameEnd

C15_Witness == canRestart /\ gameEnd /\ outcome = "over"

C17_NoFullRowLeft == \A r \in 1 .. GRID_HEIGHT : ~isFullRow(gameBoard[r])

\* an occupied cell of the active block lies on an occupied cell of the board
overlapping ==
  \E cell \in BlockCells(currentBlock) :
    /\ cell[1] \in 0 .. (GRID_WIDTH - 1)
    /\ cell[2] \in 0 .. (GRID_HEIGHT - 1)
    /\ gameBoard[cell[2] + 1][cell[1] + 1] = 1

\* C18 (as claimed): while gameEnd is false, no occupied cell of the active
\* block lies on an occupied cell of the board.
C18_ActiveBlockNeverOverlaps == ~gameEnd => ~overlapping

\* C18 (amended): while gameEnd is false, the active block comes to lie on
\* an occupied cell of the board only by being promoted there by a lock:
\* no key move, fall or restart puts it on an occupied cell.
C18_OverlapOnlyByPromotion ==
  [][(~gameEnd' /\ overlapping' /\ ~overlapping) =>
       (event' = "tick" /\ outcome' = "locked")]_vars

C18_Witness ==
  ~gameEnd /\ event = "tick" /\ outcome = "locked" /\ overlapping

inBoard(block) ==
  BlockCells(block) \subseteq
    (0 .. (GRID_WIDTH - 1)) \X (0 .. (GRID_HEIGHT - 1))

\* C19: every occupied cell of the active block and of the next block has
\* its column in [0, GRID_WIDTH) and its row in [0, GRID_HEIGHT).
C19_BlocksInsideBoard == inBoard(currentBlock) /\ inBoard(nextBlock)

C19_Witness ==
  /\ event \in MoveKeys
  /\ outcome = "blocked"
  /\ \/ currentBlock.x = 0
     \/ currentBlock.x + Len(currentBlock.shape[1]) = GRID_WIDTH
  /\ currentBlock.y + Len(currentBlock.shape) = GRID_HEIGHT

====
